---------------------------- MODULE Spec2Model ----------------------------
(***************************************************************************)
(* A model of the REPL-mode filter of quarto_repl_mode:                    *)
(* REPLSession.execute / REPLSession._flush_buffer of                      *)
(* src/_extensions/repl-mode/repl_filter.py.                               *)
(*                                                                         *)
(* Strings are sequences of atoms.  A physical line is a sequence          *)
(* <<indent?, text?>>: the optional atom "    " followed by the optional   *)
(* statement text, so "" is <<>> and "    x" is <<"    ", "x">>.  A string *)
(* with line breaks is a sequence of physical lines (what split("\n")      *)
(* gives and "\n".join takes).                                             *)
(***************************************************************************)
EXTENDS Integers, Sequences, FiniteSets, TLC

\* Longest source block, in physical lines, handed to execute.
MaxLines == 4

\* Longest source block of the family of blocks with a clause (a clause block
\* takes four lines; the fifth is the statement before or after it).
MaxClauseLines == 5

\* Longest source block of the family of statements that show values.
MaxValueLines == 3

----------------------------------------------------------------------------
(* Program constants *)

REPR_SENTINEL == "\\x00REPR\\x00"

CONTINUATION_KEYWORDS == {"else", "elif", "except", "finally", "case"}

PS1 == ">>> "
PS2 == "... "
INDENT == "    "

----------------------------------------------------------------------------
(* The statement texts of the modelled source language *)

TxtAssign == "x = 1"
TxtExpr   == "x"
TxtUnbound == "y"
TxtPrint  == "print(x)"
TxtExit   == "raise SystemExit"
TxtHeader == "if True:"
TxtLoop   == "for i in range(2):"
TxtLast   == "_"
TxtMulti  == "type('M', (), {'__repr__': lambda s: 'r1\\nr2'})()"
TxtElse   == "else:"
TxtTQOpen == "x = \"\"\"a"
TxtTQClose == "\"\"\""
TxtTQEsc  == "c\\\"\"\""

\* The simple statements: one logical line each.
SimpleTexts == {TxtAssign, TxtExpr, TxtUnbound, TxtPrint, TxtExit, TxtLast, TxtMulti}

\* The headers of compound statements: a block follows, an else clause may.
HeaderTexts == {TxtHeader, TxtLoop}

L(txt) == <<txt>>
I(txt) == <<INDENT, txt>>
BLANK == <<>>

\* line.startswith((" ", "\t"))
StartsWithSpace(line) == line # <<>> /\ line[1] = INDENT

\* line.lstrip()
LStrip(line) == IF StartsWithSpace(line) THEN Tail(line) ELSE line

\* line.strip(): the alphabet has no trailing white space
StripLine(line) == LStrip(line)

\* stripped.split()[0].rstrip(":") for a non-blank stripped line
FirstToken(stripped) ==
    CASE stripped[1] = TxtAssign  -> "x"
      [] stripped[1] = TxtExpr    -> "x"
      [] stripped[1] = TxtUnbound -> "y"
      [] stripped[1] = TxtPrint   -> "print(x)"
      [] stripped[1] = TxtExit    -> "raise"
      [] stripped[1] = TxtHeader  -> "if"
      [] stripped[1] = TxtLoop    -> "for"
      [] stripped[1] = TxtLast    -> "_"
      [] stripped[1] = TxtMulti   -> "type('M',"
      [] stripped[1] = TxtElse    -> "else"
      [] stripped[1] = TxtTQOpen  -> "x"
      [] stripped[1] = TxtTQClose -> "\"\"\""
      [] stripped[1] = TxtTQEsc   -> "c\\\"\"\""

\* The texts that hold one """ delimiter, and those that hold one ''' (none).
TripleDoubleTexts == {TxtTQOpen, TxtTQClose, TxtTQEsc}
TripleSingleTexts == {}

\* source.count(delim) on the joined buffer: a delimiter never spans a line
\* break, and no text of the alphabet holds two.
RECURSIVE Count(_, _)
Count(buf, texts) ==
    IF buf = <<>> THEN 0
    ELSE (IF \E k \in 1..Len(Head(buf)) : Head(buf)[k] \in texts THEN 1 ELSE 0)
             + Count(Tail(buf), texts)

has_unterminated_triple_quote(buf) ==
    (Count(buf, TripleDoubleTexts) % 2 = 1) \/ (Count(buf, TripleSingleTexts) % 2 = 1)

\* A keyword test that knows no clause keyword
no_continuation_keyword(line) == FALSE

is_continuation_keyword(line) ==
    LET stripped == LStrip(line) IN
    IF stripped = <<>> THEN FALSE
    ELSE FirstToken(stripped) \in CONTINUATION_KEYWORDS

next_line_is_continuation(lines, i) ==
    IF i + 1 > Len(lines) THEN FALSE
    ELSE LET next_stripped == LStrip(lines[i + 1]) IN
         IF next_stripped = <<>> THEN FALSE
         ELSE FirstToken(next_stripped) \in CONTINUATION_KEYWORDS


----------------------------------------------------------------------------
(* _make_repl_style, and what it uses of pygments.style.StyleMeta: a style  *)
(* class is its `styles`, a style definition (a sequence of words) for     *)
(* every token type; the style of a token is that of its parent changed by *)
(* the words of its own definition.                                        *)

Token == "Token"
Keyword == "Token.Keyword"
Generic == "Token.Generic"
GenericOutput == "Token.Generic.Output"
GenericPrompt == "Token.Generic.Prompt"
Tokens == {Token, Keyword, Generic, GenericOutput, GenericPrompt}

\* token.parent
Parent(t) == IF t \in {GenericOutput, GenericPrompt} THEN Generic ELSE Token

\* The colors, as StyleMeta keeps them; "" is no color
Colors == {"aaaaaa", "bbbbbb", "f8f8f2"}

\* colorformat of StyleMeta: "#rrggbb" gives "rrggbb"
colorformat(text) == CHOOSE c \in Colors : "#" \o c = text

NoStyleDef == [color |-> "", bold |-> FALSE, italic |-> FALSE, bgcolor |-> ""]

\* One word of a style definition
ApplyWord(ndef, styledef) ==
    CASE styledef = "noinherit" -> ndef
      [] styledef = "bold" -> [ndef EXCEPT !.bold = TRUE]
      [] styledef = "nobold" -> [ndef EXCEPT !.bold = FALSE]
      [] styledef = "italic" -> [ndef EXCEPT !.italic = TRUE]
      [] styledef = "bg:#aaaaaa" -> [ndef EXCEPT !.bgcolor = "aaaaaa"]
      [] OTHER -> [ndef EXCEPT !.color = colorformat(styledef)]

RECURSIVE ApplyWords(_, _)
ApplyWords(ndef, styledefs) ==
    IF styledefs = <<>> THEN ndef
    ELSE ApplyWords(ApplyWord(ndef, Head(styledefs)), Tail(styledefs))

HasWord(styledefs, w) == \E k \in 1..Len(styledefs) : styledefs[k] = w

\* StyleMeta.__new__: _styles[token]
RECURSIVE StyleOf(_, _)
StyleOf(styles, t) ==
    LET ndef == IF t = Token THEN NoStyleDef
                ELSE IF HasWord(styles[t], "noinherit") THEN StyleOf(styles, Token)
                ELSE StyleOf(styles, Parent(t))
    IN ApplyWords(ndef, styles[t])

\* StyleMeta.style_for_token: what the formatter reads ("" stands for None)
style_for_token(styles, t) == StyleOf(styles, t)

\* A derivation that overrides the style of Generic
make_repl_style_generic(base) ==
    LET default_color == IF style_for_token(base, Generic).color # ""
                         THEN style_for_token(base, Generic).color
                         ELSE "f8f8f2"
    IN [base EXCEPT ![Generic] = <<"#" \o default_color>>]

\* _make_repl_style(base_name): the `styles` of REPLStyle
make_repl_style(base) ==
    LET first == IF style_for_token(base, Generic).color # ""
                 THEN style_for_token(base, Generic).color
                 ELSE style_for_token(base, GenericOutput).color
        default_color == IF first # "" THEN first
                         ELSE IF style_for_token(base, Generic).color # ""
                         THEN style_for_token(base, Generic).color
                         ELSE "f8f8f2"
    IN [base EXCEPT ![GenericOutput] = <<"#" \o default_color>>]

\* The style definitions the themes are made of
StyleDefs ==
    {<<>>, <<"#aaaaaa">>, <<"bold", "#bbbbbb">>, <<"italic", "bg:#aaaaaa">>,
     <<"noinherit", "nobold">>}
Themes == [Tokens -> StyleDefs]

\* The style named "default", which handle_cell uses when the document names none
DefaultTheme ==
    [t \in Tokens |-> IF t = Keyword THEN <<"bold", "#bbbbbb">>
                      ELSE IF t = GenericOutput THEN <<"#aaaaaa">>
                      ELSE <<>>]

\* No style made yet
NoStyle == [t \in Tokens |-> <<"unset">>]

----------------------------------------------------------------------------
(* The Parse Probe: code.compile_command(source, symbol="single") of the   *)
(* standard library (CPython 3.11 codeop), on the joined lines.  The       *)
(* parser reads the lines in order; a line inside an open triple-quoted    *)
(* literal is content, not tokens.                                         *)

ParseStart == [st |-> "start", lit |-> FALSE]
ParseBad   == [st |-> "bad", lit |-> FALSE]

\* The parser's position after one more physical line.
ScanLine(ps, line) ==
    LET ind  == StartsWithSpace(line)
        body == LStrip(line)
    IN
    IF ps.st = "bad" THEN ps
    ELSE IF ps.lit THEN
        \* inside a literal: only a delimiter ends it
        IF body = <<TxtTQClose>>
        THEN (IF ps.st = "start" THEN [st |-> "simple", lit |-> FALSE] ELSE ParseBad)
        ELSE IF body = <<TxtTQOpen>> THEN ParseBad
        ELSE ps
    ELSE IF body = <<>> THEN ps
    ELSE IF ps.st = "simple" THEN ParseBad
    ELSE IF ps.st = "start" THEN
        IF ind THEN ParseBad
        ELSE IF body[1] \in SimpleTexts THEN [st |-> "simple", lit |-> FALSE]
        ELSE IF body[1] \in HeaderTexts THEN [st |-> "hdr", lit |-> FALSE]
        ELSE IF body[1] \in {TxtTQOpen, TxtTQClose} THEN [st |-> "start", lit |-> TRUE]
        ELSE ParseBad
    ELSE IF ps.st \in {"hdr", "ehdr"} THEN
        IF ind /\ body[1] \in SimpleTexts
        THEN [st |-> IF ps.st = "hdr" THEN "body" ELSE "ebody", lit |-> FALSE]
        ELSE IF ~ind /\ body[1] = TxtTQClose THEN [ps EXCEPT !.lit = TRUE]
        ELSE ParseBad
    ELSE \* ps.st \in {"body", "ebody"}
        IF ind /\ body[1] \in SimpleTexts THEN ps
        ELSE IF ~ind /\ body[1] = TxtElse /\ ps.st = "body" THEN [st |-> "ehdr", lit |-> FALSE]
        ELSE IF ~ind /\ body[1] = TxtTQClose THEN [ps EXCEPT !.lit = TRUE]
        ELSE ParseBad

RECURSIVE Scan(_, _)
Scan(ps, buf) == IF buf = <<>> THEN ps ELSE Scan(ScanLine(ps, Head(buf)), Tail(buf))

\* "Complete" (a code object), "Incomplete" (None) or "Invalid" (SyntaxError).
\* A compound statement is complete only when the source ends with a line break,
\* that is when the last line of the split source is empty.
compile_command(buf) ==
    LET ps == Scan(ParseStart, buf) IN
    IF ps.st = "bad" THEN "Invalid"
    ELSE IF ps.lit THEN "Incomplete"
    ELSE IF ps.st \in {"start", "simple"} THEN "Complete"
    ELSE IF ps.st \in {"hdr", "ehdr"} THEN "Incomplete"
    ELSE IF buf[Len(buf)] = BLANK THEN "Complete" ELSE "Incomplete"

\* Whether a triple-quoted literal is open at the end of the buffer (the
\* tokenizer's view, which the count heuristic approximates).
OpenLiteral(buf) == LET ps == Scan(ParseStart, buf) IN ps.st # "bad" /\ ps.lit


----------------------------------------------------------------------------
(* The console: InteractiveConsole.runcode(compiled) of the                *)
(* standard library, on the modelled statements.  Values are 1, None, the  *)
(* string of a triple-quoted literal (every literal's value is taken to be *)
(* that of the shortest one, "a\n") and an object whose representation     *)
(* has two lines.                                                          *)

Unbound == "unbound"
StrValue == "str"
NoneValue == "None"
MultiValue == "M"

\* repr(value), as lines
Repr(v) ==
    IF v = StrValue THEN <<"'a\\n'">>
    ELSE IF v = MultiValue THEN <<"r1", "r2">>
    ELSE <<v>>

\* what print(value) writes: complete lines
Printed(v) ==
    IF v = StrValue THEN <<"a", "">>
    ELSE IF v = MultiValue THEN <<"r1", "r2">>
    ELSE <<v>>

\* what showtraceback writes for an unresolved name
NameErrorText(name) ==
    <<"Traceback (most recent call last):", "NameError: name '" \o name \o "' is not defined">>

\* what showsyntaxerror writes
SyntaxErrorText == <<"  File \"<input>\", line 1", "SyntaxError: invalid syntax">>

\* The statements a complete turn executes, in order: the one simple
\* statement, the literal statement, the body of `if True:` (its else
\* branch is not taken), or the body of the loop once per iteration and then
\* its else branch (the loop has no break).
RECURSIVE BodyOf(_)
BodyOf(rest) ==
    IF rest = <<>> THEN <<>>
    ELSE IF LStrip(Head(rest)) = <<>> THEN BodyOf(Tail(rest))
    ELSE IF ~StartsWithSpace(Head(rest)) THEN <<>>
    ELSE <<LStrip(Head(rest))[1]>> \o BodyOf(Tail(rest))

\* The body of the else clause of a block, if it has one
RECURSIVE ElseBodyOf(_)
ElseBodyOf(rest) ==
    IF rest = <<>> THEN <<>>
    ELSE IF LStrip(Head(rest)) = <<TxtElse>> /\ ~StartsWithSpace(Head(rest))
    THEN BodyOf(Tail(rest))
    ELSE ElseBodyOf(Tail(rest))

RECURSIVE Program(_)
Program(buf) ==
    IF buf = <<>> THEN <<>>
    ELSE IF LStrip(Head(buf)) = <<>> THEN Program(Tail(buf))
    ELSE LET first == Head(buf)[1] IN
         IF first = TxtHeader THEN BodyOf(Tail(buf))
         ELSE IF first = TxtLoop
         THEN BodyOf(Tail(buf)) \o BodyOf(Tail(buf)) \o ElseBodyOf(Tail(buf))
         ELSE IF first = TxtTQOpen THEN <<"x = <literal>">>
         ELSE IF first = TxtTQClose THEN <<"<literal>">>
         ELSE <<first>>

\* A hook that does not look at the value
capture_displayhook_any(e, value) ==
    [e EXCEPT !.reprs = Append(e.reprs, Repr(value)), !.last = value,
              !.events = Append(e.events, "repr")]

\* sys.displayhook during a run: the capture hook of _flush_buffer
capture_displayhook(e, value) ==
    IF value # NoneValue
    THEN [e EXCEPT !.reprs = Append(e.reprs, Repr(value)), !.last = value,
                   !.events = Append(e.events, "repr")]
    ELSE e

\* An expression statement: the value goes to sys.displayhook
\* (evals: the values of the expression statements evaluated, in order)
Display(e, value) == capture_displayhook([e EXCEPT !.evals = Append(e.evals, value)], value)

\* One statement, on the run's environment e.  stop: "no", "error" (an
\* exception runcode catches and prints) or "exit" (SystemExit, which
\* runcode re-raises).  events: the channels written to, in the order of
\* the writes.
ExecStmt(e, stmt) ==
    IF e.stop # "no" THEN e
    ELSE IF stmt = TxtAssign THEN [e EXCEPT !.x = "1"]
    ELSE IF stmt = "x = <literal>" THEN [e EXCEPT !.x = StrValue]
    ELSE IF stmt = "<literal>" THEN Display(e, StrValue)
    ELSE IF stmt = TxtMulti THEN Display(e, MultiValue)
    ELSE IF stmt = TxtLast THEN
        IF e.last = Unbound
        THEN [e EXCEPT !.stop = "error", !.err = e.err \o NameErrorText("_"),
                       !.events = Append(e.events, "err")]
        ELSE Display(e, e.last)
    ELSE IF stmt = TxtExpr THEN
        IF e.x = Unbound
        THEN [e EXCEPT !.stop = "error", !.err = e.err \o NameErrorText("x"),
                        !.events = Append(e.events, "err")]
        ELSE Display(e, e.x)
    ELSE IF stmt = TxtUnbound THEN
        [e EXCEPT !.stop = "error", !.err = e.err \o NameErrorText("y"),
                  !.events = Append(e.events, "err")]
    ELSE IF stmt = TxtPrint THEN
        IF e.x = Unbound
        THEN [e EXCEPT !.stop = "error", !.err = e.err \o NameErrorText("x"),
                        !.events = Append(e.events, "err")]
        ELSE Display([e EXCEPT !.out = e.out \o Printed(e.x),
                               !.events = Append(e.events, "out")], NoneValue)
    ELSE \* TxtExit
        [e EXCEPT !.stop = "exit"]

RECURSIVE ExecAll(_, _)
ExecAll(e, prog) == IF prog = <<>> THEN e ELSE ExecAll(ExecStmt(e, Head(prog)), Tail(prog))

\* self.console.runcode(compiled) with namespace value x and last result last
runcode(buf, x, last) ==
    ExecAll([x |-> x, last |-> last, out |-> <<>>, err |-> <<>>, reprs |-> <<>>,
             events |-> <<>>, evals |-> <<>>, stop |-> "no"], Program(buf))


----------------------------------------------------------------------------
(* The program state *)

\* The module-level `session`, which handle_cell uses
session == "session"

\* The sessions of the process: `session` and one more REPLSession().
Sessions == {session, "other"}

VARIABLES
    pc,              \* "idle": no call of execute; "loop": inside its for loop;
                     \* "done": the call has returned or raised
    self,            \* the session the current (or last) call runs through
    source,          \* the argument of the current (or last) call, split at line breaks
    lines,           \* execute's `lines`
    i,               \* the index of the next line of the loop (1-based)
    buffer,          \* execute's `buffer`
    output_parts,    \* execute's `output_parts`, each with its channel and turn
    turns,           \* the calls of _flush_buffer of this call of execute, in order
    result,          \* the string the last call returned
    outcome,         \* "none", "running", "returned" or "raised"
    locals,          \* per session: self.console.locals, the value bound to x
    builtins_last,   \* builtins._ , the last-result binding
    sys_stdout,      \* sys.stdout: "orig" or "capture"
    sys_stderr,      \* sys.stderr
    sys_displayhook, \* sys.displayhook
    elem,            \* the element handle_cell was called with (NoElem: execute
                     \* was called directly)
    replacement,     \* what handle_cell returned: Pending, None or a RawBlock
    pygments_style,  \* the `styles` of the base style the document names
    repl_style,      \* the `styles` of the style handle_cell derived, or NoStyle
    own_last,        \* per session: the last-result binding its own turns alone
                     \* would have left
    solo_parts       \* what `output_parts` would be had no turn of another
                     \* session been run

vars == <<pc, self, source, lines, i, buffer, output_parts, turns, result, outcome,
          locals, builtins_last, sys_stdout, sys_stderr, sys_displayhook,
          elem, replacement, pygments_style, repl_style, own_last, solo_parts>>

----------------------------------------------------------------------------
(* REPLSession._flush_buffer *)

\* A text of complete lines as physical lines
TextLines(t) == [k \in 1..Len(t) |-> <<t[k]>>]

\* getvalue().rstrip(): the trailing line break and trailing empty lines go
RECURSIVE RStripText(_)
RStripText(t) ==
    IF t = <<>> THEN t
    ELSE IF t[Len(t)] = "" THEN RStripText(SubSeq(t, 1, Len(t) - 1))
    ELSE t

Part(ch, s, tn) == [ch |-> ch, s |-> s, turn |-> tn]

\* An echo that shows only the first line of the buffer
EchoFirstOnly(buf, tn) == <<Part("primary", << <<PS1>> \o buf[1] >>, tn)>>

\* f">>> {buffer[0]}" and f"... {b}" for b in buffer[1:]
Echo(buf, tn) ==
    [k \in 1..Len(buf) |->
        IF k = 1 THEN Part("primary", << <<PS1>> \o buf[1] >>, tn)
        ELSE Part("cont", << <<PS2>> \o buf[k] >>, tn)]

\* lines 60-66: what showsyntaxerror wrote, when it wrote something
DiagnosticDropped(tn) == <<>>

Diagnostic(tn) ==
    LET err == SyntaxErrorText IN
    IF err # <<>> THEN <<Part("diag", TextLines(RStripText(err)), tn)>> ELSE <<>>

\* REPR_SENTINEL + rv, as physical lines
Tagged(rv) == << <<REPR_SENTINEL, rv[1]>> >> \o Tail([k \in 1..Len(rv) |-> <<rv[k]>>])

\* The parts of a run with the representations put first
CapturedReprFirst(r, tn) ==
    [k \in 1..Len(r.reprs) |-> Part("repr", Tagged(r.reprs[k]), tn)]
    \o (IF r.out # <<>> THEN <<Part("out", TextLines(RStripText(r.out)), tn)>> ELSE <<>>)
    \o (IF r.err # <<>> THEN <<Part("err", TextLines(RStripText(r.err)), tn)>> ELSE <<>>)

\* The parts appended after a run: printed text, error text, representations
Captured(r, tn) ==
    (IF r.out # <<>> THEN <<Part("out", TextLines(RStripText(r.out)), tn)>> ELSE <<>>)
    \o (IF r.err # <<>> THEN <<Part("err", TextLines(RStripText(r.err)), tn)>> ELSE <<>>)
    \o [k \in 1..Len(r.reprs) |-> Part("repr", Tagged(r.reprs[k]), tn)]

\* The record of one call of _flush_buffer: the turn
\* (first: the index in `lines` of its first line; runs: how many times it was
\* handed to runcode; stop: how its run ended; events, reprs: what the run
\* wrote, in the order of the writes; before: the namespace it started from)
Turn(buf, last_index, status, r, m, site) ==
    [lines |-> buf, first |-> last_index - Len(buf) + 1, status |-> status,
     runs |-> IF status = "Complete" THEN 1 ELSE 0, stop |-> r.stop,
     events |-> r.events, reprs |-> r.reprs, evals |-> r.evals, before |-> m.x,
     site |-> site]

\* A turn that was not run
NotRun == [stop |-> "none", events |-> <<>>, reprs |-> <<>>, evals |-> <<>>]

\* A probe of the buffer as it is, with no line break after it
flush_probe_plain(buf) == compile_command(buf)

\* line 53: the probe of _flush_buffer, with a line break after the buffer to
\* signal the end of a block
flush_probe(buf) == compile_command(Append(buf, BLANK))

\* m: the state _flush_buffer works on.  m.stop = "exit": SystemExit left
\* runcode, _flush_buffer and execute.
flush_buffer(buf, m, last_index, site) ==
    LET compiled == flush_probe(buf)
        tn == Len(m.turns) + 1
        shown == m.out \o Echo(buf, tn)
    IN
    IF compiled = "Invalid" THEN
        \* lines 54-67: sys.stderr is swapped for the diagnostic and put back
        LET old_stderr == m.se IN
        [m EXCEPT !.out = shown \o Diagnostic(tn),
                  !.se = old_stderr,
                  !.turns = Append(m.turns, Turn(buf, last_index, "Invalid", NotRun, m, site))]
    ELSE IF compiled = "Incomplete" THEN
        \* lines 69-75
        [m EXCEPT !.out = shown,
                  !.turns = Append(m.turns, Turn(buf, last_index, "Incomplete", NotRun, m, site))]
    ELSE
        \* lines 77-112
        LET old_stdout == m.so
            old_stderr == m.se
            old_displayhook == m.dh
            r == runcode(buf, m.x, m.last)
        IN
        IF r.stop = "exit" THEN
            \* runcode re-raises SystemExit: lines 101-112 do not run
            [m EXCEPT !.out = shown, !.x = r.x, !.last = r.last,
                      !.so = "capture", !.se = "capture", !.dh = "capture",
                      !.stop = "exit",
                      !.turns = Append(m.turns, Turn(buf, last_index, "Complete", r, m, site))]
        ELSE
            [m EXCEPT !.out = shown \o Captured(r, tn), !.x = r.x, !.last = r.last,
                      !.so = old_stdout, !.se = old_stderr, !.dh = old_displayhook,
                      !.turns = Append(m.turns, Turn(buf, last_index, "Complete", r, m, site))]


----------------------------------------------------------------------------
(* REPLSession.execute *)

IsWhitespace(line) == LStrip(line) = <<>>

RECURSIVE DropLeading(_)
DropLeading(src) ==
    IF src = <<>> THEN src
    ELSE IF IsWhitespace(Head(src)) THEN DropLeading(Tail(src))
    ELSE src

RECURSIVE DropTrailing(_)
DropTrailing(src) ==
    IF src = <<>> THEN src
    ELSE IF IsWhitespace(src[Len(src)]) THEN DropTrailing(SubSeq(src, 1, Len(src) - 1))
    ELSE src

\* source.strip().split("\n"): white space, line breaks included, goes from both
\* ends of the block; what is left is split.  "".split("\n") is [""].
StripSplit(src) ==
    LET kept == DropTrailing(DropLeading(src)) IN
    IF kept = <<>> THEN <<BLANK>>
    ELSE <<LStrip(kept[1])>> \o Tail(kept)

\* "\n".join(output_parts), as physical lines
RECURSIVE Join(_)
Join(parts) == IF parts = <<>> THEN <<>> ELSE Head(parts).s \o Join(Tail(parts))

\* self.console.locals: the namespace of the session's one console
console_locals_fresh(loc, s) == Unbound

console_locals(loc, s) == loc[s]

\* The state _flush_buffer reads and writes
Machine ==
    [out |-> output_parts, x |-> console_locals(locals, self), last |-> builtins_last,
     so |-> sys_stdout, se |-> sys_stderr, dh |-> sys_displayhook,
     turns |-> turns, stop |-> "no"]

\* The same, for a process in which only this session ever ran a turn
SoloMachine == [Machine EXCEPT !.out = solo_parts, !.last = own_last[self]]

\* A pre-check that does not ask whether the new line is blank
PreCheckFlushesBlank(buf, line) ==
    /\ buf # <<>>
    /\ ~StartsWithSpace(line)
    /\ ~is_continuation_keyword(line)
    /\ compile_command(buf) = "Incomplete"
    /\ ~has_unterminated_triple_quote(buf)

\* lines 144-151: the pre-check that flushes a dangling incomplete block
PreCheckFlushes(buf, line) ==
    /\ buf # <<>>
    /\ ~StartsWithSpace(line)
    /\ StripLine(line) # <<>>
    /\ ~is_continuation_keyword(line)
    /\ compile_command(buf) = "Incomplete"
    /\ ~has_unterminated_triple_quote(buf)

\* A decision that keeps every Invalid buffer
PostAppendFlushesKeepInvalid(buf, lns, k) ==
    LET compiled == compile_command(buf) IN
    IF compiled = "Invalid" THEN FALSE
    ELSE IF compiled = "Incomplete" THEN FALSE
    ELSE ~next_line_is_continuation(lns, k)

\* A decision that does not peek at the next line
PostAppendFlushesNoPeek(buf, lns, k) ==
    LET compiled == compile_command(buf) IN
    IF compiled = "Invalid" THEN ~has_unterminated_triple_quote(buf)
    ELSE IF compiled = "Incomplete" THEN FALSE
    ELSE TRUE

\* lines 159-178: whether the buffer is flushed after the line is appended
PostAppendFlushes(buf, lns, k) ==
    LET compiled == compile_command(buf) IN
    IF compiled = "Invalid" THEN ~has_unterminated_triple_quote(buf)
    ELSE IF compiled = "Incomplete" THEN FALSE
    ELSE ~next_line_is_continuation(lns, k)

\* A flush after which the buffer is kept
AfterFlushKeep(flushed, buf) == buf

\* lines 154, 167, 179: `buffer = []` after a flush
AfterFlush(flushed, buf) == IF flushed THEN <<>> ELSE buf

\* The families of lines the source blocks are written in.
FamStatements == {L(TxtAssign), L(TxtExpr), L(TxtExit), BLANK, I(TxtExpr)}
FamBlocks == {L(TxtHeader), I(TxtPrint), I(TxtExpr), I(TxtUnbound), I(TxtAssign),
              L(TxtElse)}
FamLiterals == {L(TxtTQOpen), L(TxtTQClose), L(TxtTQEsc), L(TxtExpr)}
FamClauses == {L(TxtHeader), I(TxtPrint), L(TxtElse), L(TxtAssign)}
FamLoops == {L(TxtLoop), I(TxtExpr), I(TxtPrint), L(TxtElse)}
FamValues == {L(TxtAssign), L(TxtExpr), L(TxtLast), L(TxtMulti)}
FamGaps == {L(TxtHeader), BLANK, I(TxtPrint), L(TxtExpr)}
Families == {FamStatements, FamBlocks, FamLiterals, FamLoops, FamGaps}

SeqsUpTo(S, n) == UNION {[1..k -> S] : k \in 1..n}
Sources ==
    UNION {SeqsUpTo(F, MaxLines) : F \in Families}
        \cup SeqsUpTo(FamClauses, MaxClauseLines)
        \cup SeqsUpTo(FamValues, MaxValueLines)

\* lines 140-179 on the state m: one iteration of the loop
LineStep(m, buf, lns, k) ==
    LET line == lns[k]
        pre  == PreCheckFlushes(buf, line)
        m1   == IF pre THEN flush_buffer(buf, m, k - 1, "pre") ELSE m
        buf1 == Append(AfterFlush(pre, buf), line)
    IN
    IF m1.stop = "exit" THEN m1
    ELSE IF PostAppendFlushes(buf1, lns, k) THEN flush_buffer(buf1, m1, k, "post")
    ELSE m1

\* lines 181-183 on the state m: the trailing flush
TailStep(m, buf, lns) ==
    IF buf # <<>> THEN flush_buffer(buf, m, Len(lns), "tail") ELSE m

\* What a step would have left had only this session ever run a turn
Alone(m) ==
    /\ solo_parts' = m.out
    /\ own_last' = [own_last EXCEPT ![self] = m.last]

----------------------------------------------------------------------------
(* handle_cell *)

\* No element: execute was called directly
NoElem == [kind |-> "none"]

\* `source` of handle_cell is None, or a text: a sequence of at most one text
NoSource == <<>>
Found(text) == <<text>>

\* What handle_cell has returned: nothing yet, or None
Pending == [format |-> "pending"]
ReturnedNone == [format |-> "None"]

\* The children of an element, and the blocks inside a cell-code Div
Para == [kind |-> "Para"]
CodeBlock(classes, text) == [kind |-> "CodeBlock", classes |-> classes, text |-> text]
Div(classes, content) == [kind |-> "Div", classes |-> classes, content |-> content]

\* lines 205-208: the text of the first CodeBlock of a cell-code Div
RECURSIVE FirstCodeBlock(_)
FirstCodeBlock(content) ==
    IF content = <<>> THEN NoSource
    ELSE IF Head(content).kind = "CodeBlock" THEN Found(Head(content).text)
    ELSE FirstCodeBlock(Tail(content))

\* lines 202-212: the source locator
RECURSIVE FindSource(_)
FindSource(content) ==
    IF content = <<>> THEN NoSource
    ELSE LET child == Head(content)
             found  == IF child.kind = "Div" /\ "cell-code" \in child.classes
                       THEN FirstCodeBlock(child.content)
                       ELSE IF child.kind = "CodeBlock" /\ "cell-code" \in child.classes
                       THEN Found(child.text)
                       ELSE NoSource
         IN IF found # NoSource THEN found ELSE FindSource(Tail(content))

\* A test that takes every cell for a session-mode cell
FlaggedAnyCell(el) ==
    /\ el.kind = "Div"
    /\ "cell" \in el.classes

\* lines 192-199: the element is a cell Div flagged for session mode
Flagged(el) ==
    /\ el.kind = "Div"
    /\ "cell" \in el.classes
    /\ el.repl_mode = "true"

\* The source handle_cell runs, or NoSource when it returns None
SourceToRun(el) == IF Flagged(el) THEN FindSource(el.content) ELSE NoSource

\* line.startswith(REPR_SENTINEL)
StartsWithSentinel(line) == line # <<>> /\ line[1] = REPR_SENTINEL

\* text.strip("\n") as the lexers do it (stripnl), as lines
RECURSIVE DropEmptyFirst(_)
DropEmptyFirst(t) ==
    IF t = <<>> THEN t
    ELSE IF Head(t) = <<>> THEN DropEmptyFirst(Tail(t))
    ELSE t

RECURSIVE DropEmptyLast(_)
DropEmptyLast(t) ==
    IF t = <<>> THEN t
    ELSE IF t[Len(t)] = <<>> THEN DropEmptyLast(SubSeq(t, 1, Len(t) - 1))
    ELSE t

\* highlight(text, lexer, formatter).rstrip("\n"): the text of the markup.
\* The lexer strips the line breaks at both ends of its input and the
\* formatter keeps the lines of what is left; "" is one empty line.
highlight(text) ==
    LET kept == DropEmptyLast(DropEmptyFirst(text)) IN
    IF kept = <<>> THEN <<BLANK>> ELSE kept

\* One entry of highlighted_parts: what was highlighted, with which lexer
\* ("console": PythonConsoleLexer, "result": Python3Lexer), and the markup
Fragment(kind, src) == [kind |-> kind, src |-> src, markup |-> highlight(src)]

\* lines 238-244
flush_console(parts, console_buf) ==
    IF console_buf # <<>> THEN Append(parts, Fragment("console", console_buf)) ELSE parts

\* A loop that does not flush the console lines before a result line
RECURSIVE RenderLinesNoFlush(_, _, _)
RenderLinesNoFlush(lns, console_buf, parts) ==
    IF lns = <<>> THEN flush_console(parts, console_buf)
    ELSE LET line == Head(lns) IN
         IF StartsWithSentinel(line)
         THEN RenderLinesNoFlush(Tail(lns), console_buf,
                                 Append(parts, Fragment("result", <<Tail(line)>>)))
         ELSE RenderLinesNoFlush(Tail(lns), Append(console_buf, line), parts)

\* lines 246-256: the loop over the lines of the transcript and the last flush
RECURSIVE RenderLines(_, _, _)
RenderLines(lns, console_buf, parts) ==
    IF lns = <<>> THEN flush_console(parts, console_buf)
    ELSE LET line == Head(lns) IN
         IF StartsWithSentinel(line)
         THEN RenderLines(Tail(lns), <<>>,
                          Append(flush_console(parts, console_buf),
                                 Fragment("result", <<Tail(line)>>)))
         ELSE RenderLines(Tail(lns), Append(console_buf, line), parts)

\* lines 257-259: the RawBlock
RawBlock(parts) == [format |-> "html", highlighted_parts |-> parts]

\* The elements handle_cell is called with: every source block inside a
\* flagged cell, and small elements of every shape.
SrcA == <<L(TxtAssign)>>
SrcB == <<L(TxtExpr)>>
Children ==
    {Para, Div({"cell-code"}, <<>>), Div({"cell-code"}, <<Para, CodeBlock({}, SrcB)>>),
     Div({}, <<CodeBlock({"cell-code"}, SrcA)>>), CodeBlock({"cell-code"}, SrcA),
     CodeBlock({}, SrcB)}
Cell(content) == [kind |-> "Div", classes |-> {"cell"}, repl_mode |-> "true", content |-> content]
Elems ==
    {Cell(<<Div({"cell-code"}, <<CodeBlock({}, src)>>)>>) : src \in Sources}
    \cup {[kind |-> k, classes |-> c, repl_mode |-> r, content |-> ct] :
              k \in {"Div", "Para"}, c \in {{"cell"}, {}}, r \in {"true", "false", "absent"},
              ct \in {<<>>} \cup SeqsUpTo(Children, 2)}

Init ==
    /\ pc = "idle"
    /\ self = session
    /\ elem = NoElem
    /\ replacement = Pending
    /\ pygments_style = DefaultTheme
    /\ repl_style = NoStyle
    /\ own_last = [s \in Sessions |-> Unbound]
    /\ solo_parts = <<>>
    /\ source = <<BLANK>>
    /\ lines = <<>>
    /\ i = 1
    /\ buffer = <<>>
    /\ output_parts = <<>>
    /\ turns = <<>>
    /\ result = <<>>
    /\ outcome = "none"
    /\ locals = [s \in Sessions |-> Unbound]
    /\ builtins_last = Unbound
    /\ sys_stdout = "orig"
    /\ sys_stderr = "orig"
    /\ sys_displayhook = "orig"

\* What a step leaves of the state _flush_buffer works on
Store(m) ==
    /\ output_parts' = m.out
    /\ turns' = m.turns
    /\ locals' = [locals EXCEPT ![self] = m.x]
    /\ builtins_last' = m.last
    /\ sys_stdout' = m.so
    /\ sys_stderr' = m.se
    /\ sys_displayhook' = m.dh

\* SystemExit leaves execute
Raise == pc' = "done" /\ outcome' = "raised"

\* lines 134-138: a caller calls session.execute(src)
Execute(s, src) ==
    /\ pc = "idle"
    /\ pc' = "loop"
    /\ self' = s
    /\ source' = src
    /\ lines' = StripSplit(src)
    /\ i' = 1
    /\ buffer' = <<>>
    /\ output_parts' = <<>>
    /\ turns' = <<>>
    /\ result' = <<>>
    /\ outcome' = "running"
    /\ replacement' = Pending
    /\ solo_parts' = <<>>
    /\ UNCHANGED <<locals, builtins_last, sys_stdout, sys_stderr, sys_displayhook, own_last,
                   pygments_style, repl_style>>

\* lines 140-179: one iteration of the loop
ProcessLine ==
    /\ pc = "loop"
    /\ i <= Len(lines)
    /\ Alone(LineStep(SoloMachine, buffer, lines, i))
    /\ LET line == lines[i]
           pre  == PreCheckFlushes(buffer, line)
       IN
       \E m1 \in {IF pre THEN flush_buffer(buffer, Machine, i - 1, "pre") ELSE Machine} :
       IF m1.stop = "exit"
       THEN /\ Store(m1) /\ Raise
            /\ UNCHANGED <<self, source, lines, i, buffer, result, elem, replacement,
                           pygments_style, repl_style>>
       ELSE LET buf1 == Append(AfterFlush(pre, buffer), line)
                post == PostAppendFlushes(buf1, lines, i)
            IN
            \E m2 \in {IF post THEN flush_buffer(buf1, m1, i, "post") ELSE m1} :
            IF m2.stop = "exit"
            THEN /\ Store(m2) /\ Raise /\ buffer' = buf1
                 /\ UNCHANGED <<self, source, lines, i, result, elem, replacement,
                                pygments_style, repl_style>>
            ELSE /\ Store(m2)
                 /\ buffer' = AfterFlush(post, buf1)
                 /\ i' = i + 1
                 /\ UNCHANGED <<pc, self, source, lines, result, outcome, elem, replacement,
                                pygments_style, repl_style>>

\* lines 181-185: the trailing flush and the return
Return ==
    /\ pc = "loop"
    /\ i > Len(lines)
    /\ Alone(TailStep(SoloMachine, buffer, lines))
    /\ \E m \in {IF buffer # <<>>
                 THEN flush_buffer(buffer, Machine, Len(lines), "tail") ELSE Machine} :
       IF m.stop = "exit"
       THEN /\ Store(m) /\ Raise
            /\ UNCHANGED <<self, source, lines, i, buffer, result, elem, replacement,
                           pygments_style, repl_style>>
       ELSE /\ Store(m)
            /\ pc' = "done"
            /\ outcome' = "returned"
            /\ result' = Join(m.out)
            /\ UNCHANGED <<self, source, lines, i, buffer, elem, replacement,
                           pygments_style, repl_style>>

\* lines 217-259: handle_cell renders the transcript execute returned
Render ==
    /\ pc = "done"
    /\ outcome = "returned"
    /\ elem # NoElem
    /\ replacement = Pending
    /\ repl_style' = make_repl_style(pygments_style)
    /\ replacement' = RawBlock(RenderLines(result, <<>>, <<>>))
    /\ UNCHANGED <<pc, self, source, lines, i, buffer, output_parts, turns, result, outcome,
                   locals, builtins_last, sys_stdout, sys_stderr, sys_displayhook,
                   elem, pygments_style, own_last, solo_parts>>

\* lines 192-199, 214-215: handle_cell returns None for an element that is
\* not flagged or holds no source
PassThrough ==
    /\ pc = "idle"
    /\ \E el \in Elems :
          /\ SourceToRun(el) = NoSource
          /\ elem' = el
    /\ pc' = "done"
    /\ outcome' = "passed"
    /\ replacement' = ReturnedNone
    /\ UNCHANGED <<self, source, lines, i, buffer, output_parts, turns, result,
                   locals, builtins_last, sys_stdout, sys_stderr, sys_displayhook,
                   pygments_style, repl_style, own_last, solo_parts>>

\* The caller goes on with what the call gave it: the frame of execute is gone,
\* the session and the process-wide channels stay.
Resume ==
    /\ pc = "done"
    /\ (elem = NoElem \/ outcome # "returned" \/ replacement # Pending)
    /\ elem' = NoElem
    /\ replacement' = Pending
    /\ pc' = "idle"
    /\ source' = <<BLANK>>
    /\ lines' = <<>>
    /\ i' = 1
    /\ buffer' = <<>>
    /\ output_parts' = <<>>
    /\ turns' = <<>>
    /\ result' = <<>>
    /\ outcome' = "none"
    /\ solo_parts' = <<>>
    /\ repl_style' = NoStyle
    /\ UNCHANGED <<self, locals, builtins_last, sys_stdout, sys_stderr, sys_displayhook,
                   pygments_style, own_last>>

\* line 217: handle_cell calls execute on the module-level session with the
\* source it found in a flagged element
Call ==
    /\ pc = "idle"
    /\ \E el \in Elems :
          /\ SourceToRun(el) # NoSource
          /\ Execute(session, SourceToRun(el)[1])
          /\ elem' = el

\* Longest source block handed to one of several sessions.
MaxSessionLines == 2

\* Some caller calls execute on any session of the process
SessionSources == SeqsUpTo(FamValues, MaxSessionLines)
CallSession ==
    /\ pc = "idle"
    /\ \E s \in Sessions, src \in SessionSources : Execute(s, src)
    /\ elem' = NoElem

Next ==
    \/ Call
    \/ PassThrough
    \/ ProcessLine
    \/ Return
    \/ Render
    \/ Resume

Spec == Init /\ [][Next]_vars

\* The process with several sessions, each called directly
NextSessions ==
    \/ CallSession
    \/ ProcessLine
    \/ Return
    \/ Resume

SpecSessions == Init /\ [][NextSessions]_vars

\* _make_repl_style on its own: any base theme, derived once
InitTheme ==
    /\ pc = "idle"
    /\ self = session
    /\ elem = NoElem
    /\ replacement = Pending
    /\ pygments_style \in Themes
    /\ repl_style = NoStyle
    /\ own_last = [s \in Sessions |-> Unbound]
    /\ solo_parts = <<>>
    /\ source = <<BLANK>>
    /\ lines = <<>>
    /\ i = 1
    /\ buffer = <<>>
    /\ output_parts = <<>>
    /\ turns = <<>>
    /\ result = <<>>
    /\ outcome = "none"
    /\ locals = [s \in Sessions |-> Unbound]
    /\ builtins_last = Unbound
    /\ sys_stdout = "orig"
    /\ sys_stderr = "orig"
    /\ sys_displayhook = "orig"

MakeReplStyle ==
    /\ repl_style = NoStyle
    /\ repl_style' = make_repl_style(pygments_style)
    /\ UNCHANGED <<pc, self, source, lines, i, buffer, output_parts, turns, result, outcome,
                   locals, builtins_last, sys_stdout, sys_stderr, sys_displayhook,
                   elem, replacement, pygments_style, own_last, solo_parts>>

NextTheme == MakeReplStyle

SpecTheme == InitTheme /\ [][NextTheme]_vars


----------------------------------------------------------------------------
(* Properties *)

Returned == pc = "done" /\ outcome = "returned"

\* The texts of the echo lines of a transcript: the lines that start with a
\* prompt, without the prompt.
RECURSIVE EchoTexts(_)
EchoTexts(transcript) ==
    IF transcript = <<>> THEN <<>>
    ELSE (IF Head(transcript) # <<>> /\ Head(transcript)[1] \in {PS1, PS2}
          THEN <<Tail(Head(transcript))>> ELSE <<>>) \o EchoTexts(Tail(transcript))

\* The parts of the transcript that turn number tn appended
PartsOf(parts, tn) == SelectSeq(parts, LAMBDA p : p.turn = tn)

\* C1, as stated: the echoed lines of the transcript execute returns are
\* exactly the lines of the source block it was given.
C1_EchoesSource == Returned => EchoTexts(result) = source

\* C1, amended: the echoed lines of the transcript execute returns are exactly
\* the lines of the source block after white space has been stripped from
\* both ends of the block, in order, each once, whatever the turns did.
C1_EchoesStrippedSource == Returned => EchoTexts(result) = StripSplit(source)

\* A call that returned, of a block that the strip changed, with several
\* turns, one of them Invalid and one that raised an error.
C1_Witness ==
    /\ Returned
    /\ StripSplit(source) # source
    /\ Len(turns) >= 2
    /\ \E k \in 1..Len(turns) : turns[k].status = "Invalid"
    /\ \E k \in 1..Len(turns) : turns[k].stop = "error"


----------------------------------------------------------------------------
(* Turns *)

\* The lines of the turns, one after the other
RECURSIVE TurnLines(_)
TurnLines(ts) == IF ts = <<>> THEN <<>> ELSE Head(ts).lines \o TurnLines(Tail(ts))

\* The turns a step adds
NewTurns == SubSeq(turns', Len(turns) + 1, Len(turns'))

\* The parts of the transcript a step adds
NewParts == SubSeq(output_parts', Len(output_parts) + 1, Len(output_parts'))

\* A step of a call that flushes exactly the one turn of the given lines
FlushesOnly(buf) ==
    /\ pc = "loop"
    /\ Len(turns') = Len(turns) + 1
    /\ turns'[Len(turns')].lines = buf

Channels(parts) == [k \in 1..Len(parts) |-> parts[k].ch]

\* C2: when a call of execute is over, every line of the block is in exactly
\* one turn, the turns are contiguous runs of lines in source order, and no
\* turn was handed to runcode more than once.
C2_LinesPartitionedIntoTurns ==
    pc = "done" =>
        /\ TurnLines(turns) = lines
        /\ \A k \in 1..Len(turns) :
              /\ turns[k].lines # <<>>
              /\ turns[k].first = 1 + Len(TurnLines(SubSeq(turns, 1, k - 1)))
              /\ turns[k].runs <= 1

\* C3: a binding made by a turn is there for every later turn of the session,
\* in the same call and in later calls: the turn `x = 1` binds x; nothing but
\* the run of a turn changes the namespace (not the return of execute, not
\* the next call); and the turn `x`, run when x is bound, yields the
\* representation of the bound value.
C3_BindingVisibleLater ==
    [][ /\ pc # "loop" => locals' = locals
        /\ (pc = "loop" /\ \A k \in 1..Len(NewTurns) : NewTurns[k].runs = 0)
              => locals' = locals
        /\ FlushesOnly(<<L(TxtAssign)>>) => locals'[self] = "1"
        /\ (FlushesOnly(<<L(TxtExpr)>>) /\ locals[self] # Unbound)
              => /\ NewParts = <<Part("primary", << <<PS1, TxtExpr>> >>, Len(turns')),
                                 Part("repr", Tagged(Repr(locals[self])), Len(turns'))>>
                 /\ locals' = locals
      ]_vars

\* A call that consists of the one turn `x` and yields the representation of
\* the value an earlier call bound.
C3_Witness ==
    /\ Returned
    /\ lines = <<L(TxtExpr)>>
    /\ result = << <<PS1, TxtExpr>>, <<REPR_SENTINEL, "1">> >>

\* The place of a channel in the order of a turn's transcript lines
Rank(ch) ==
    CASE ch \in {"primary", "cont"} -> 1
      [] ch = "out" -> 2
      [] ch \in {"err", "diag"} -> 3
      [] ch = "repr" -> 4

\* C4: the transcript lines of one turn come in the order echo, printed text,
\* error text, representations, and the representations are in the order the
\* values were produced, whatever the order in which the run wrote to the
\* channels.
C4_ChannelOrder ==
    \A tn \in 1..Len(turns) :
        LET ps == PartsOf(output_parts, tn)
            rs == SelectSeq(ps, LAMBDA p : p.ch = "repr")
        IN
        /\ \A a, b \in 1..Len(ps) : a < b => Rank(ps[a].ch) <= Rank(ps[b].ch)
        /\ [k \in 1..Len(rs) |-> rs[k].s] = [k \in 1..Len(rs) |-> Tagged(turns[tn].reprs[k])]
        /\ Len(rs) = Len(turns[tn].reprs)

\* A turn whose run produced a value, then printed, then raised an error.
C4_Witness ==
    \E tn \in 1..Len(turns) :
        /\ turns[tn].events = <<"repr", "out", "err">>
        /\ Channels(PartsOf(output_parts, tn)) =
               <<"primary", "cont", "cont", "cont", "out", "err", "repr">>


\* An indented, non-blank line
IsBodyLine(line) == StartsWithSpace(line) /\ LStrip(line) # <<>>

\* An unindented line whose first token is a continuation keyword
IsClauseLine(line) ==
    /\ line # <<>>
    /\ ~StartsWithSpace(line)
    /\ FirstToken(line) \in CONTINUATION_KEYWORDS

\* lns[a..b] is a block with an attached clause and nothing of the block is
\* left out: an unindented header line that probes Incomplete, then indented
\* body lines and clause keyword lines, the clauses being ones the header
\* admits; the line after lns[b], if any, is neither.
ClauseBlock(lns, a, b) ==
    /\ ~StartsWithSpace(lns[a])
    /\ compile_command(<<lns[a]>>) = "Incomplete"
    /\ ~OpenLiteral(<<lns[a]>>)
    /\ \A k \in (a + 1)..b : IsBodyLine(lns[k]) \/ IsClauseLine(lns[k])
    /\ \E k \in (a + 1)..b : IsClauseLine(lns[k])
    /\ compile_command(Append(SubSeq(lns, a, b), BLANK)) = "Complete"
    /\ b < Len(lns) => ~IsBodyLine(lns[b + 1]) /\ ~IsClauseLine(lns[b + 1])

\* C5: a block with an attached clause is one turn: once its last line is in
\* a turn, the whole block is that turn; the turn has one primary echo for
\* the header and one continuation echo for every later line, the clause
\* lines included; it was handed to runcode once; and what the run printed
\* and what error it raised are each in the transcript once, after the echoes.
C5_ClauseBlockIsOneTurn ==
    \A a, b \in 1..Len(lines) :
        (/\ a < b
         /\ ClauseBlock(lines, a, b)
         /\ \E tn \in 1..Len(turns) : turns[tn].first + Len(turns[tn].lines) > b)
        => \E tn \in 1..Len(turns) :
              LET t == turns[tn]
                  ps == PartsOf(output_parts, tn)
                  n == b - a + 1
                  Times(ch) == Cardinality({k \in 1..Len(ps) : ps[k].ch = ch})
                  Wrote(ch) == \E k \in 1..Len(t.events) : t.events[k] = ch
              IN
              /\ t.first = a
              /\ t.lines = SubSeq(lines, a, b)
              /\ t.status = "Complete"
              /\ t.runs = 1
              /\ Len(ps) >= n
              /\ ps[1].ch = "primary" /\ ps[1].s = << <<PS1>> \o lines[a] >>
              /\ \A k \in 2..n : ps[k].ch = "cont" /\ ps[k].s = << <<PS2>> \o lines[a + k - 1] >>
              /\ \A k \in (n + 1)..Len(ps) : ps[k].ch \in {"out", "err", "repr"}
              /\ Times("out") = (IF Wrote("out") THEN 1 ELSE 0)
              /\ Times("err") = (IF Wrote("err") THEN 1 ELSE 0)

\* A call that has returned, with an if/else block between two other
\* statements or next to one, whose run printed.
C5_Witness ==
    /\ Returned
    /\ Len(lines) = 5
    /\ \E a \in 1..2 :
          /\ SubSeq(lines, a, a + 3) = <<L(TxtHeader), I(TxtPrint), L(TxtElse), I(TxtPrint)>>
          /\ \E tn \in 1..Len(turns) :
                /\ turns[tn].first = a
                /\ Channels(PartsOf(output_parts, tn)) =
                       <<"primary", "cont", "cont", "cont", "out">>

\* C6: while the buffer holds an open triple-quoted literal, reading a
\* further line flushes nothing, or flushes the buffer together with that
\* line as one turn in which the literal is closed.
C6_OpenLiteralNeverSplit ==
    [][ (pc = "loop" /\ i <= Len(lines) /\ OpenLiteral(buffer))
            => \/ turns' = turns
               \/ /\ Len(turns') = Len(turns) + 1
                  /\ turns'[Len(turns')].lines = Append(buffer, lines[i])
                  /\ ~OpenLiteral(turns'[Len(turns')].lines)
      ]_vars

\* C7: an Invalid turn yields its echo followed by the diagnostic of the
\* probe and nothing else, and is not run; only Complete turns have
\* representations; a step that flushes no turn that runs leaves the
\* namespace, the last-result binding and the channels as they were and does
\* not raise.
C7_InvalidTurn ==
    /\ [](\A tn \in 1..Len(turns) :
            LET t == turns[tn]
                ps == PartsOf(output_parts, tn)
                n == Len(t.lines)
            IN
            /\ t.status = "Invalid" =>
                  /\ Len(ps) = n + 1
                  /\ ps[1].ch = "primary" /\ ps[1].s = << <<PS1>> \o t.lines[1] >>
                  /\ \A k \in 2..n : ps[k].ch = "cont" /\ ps[k].s = << <<PS2>> \o t.lines[k] >>
                  /\ ps[n + 1].ch = "diag" /\ ps[n + 1].s = TextLines(SyntaxErrorText)
                  /\ t.runs = 0
            /\ t.status # "Complete" =>
                  /\ t.reprs = <<>>
                  /\ \A k \in 1..Len(ps) : ps[k].ch # "repr")
    /\ [][ (pc = "loop" /\ \A k \in 1..Len(NewTurns) : NewTurns[k].status = "Invalid")
              => /\ locals' = locals
                 /\ builtins_last' = builtins_last
                 /\ <<sys_stdout, sys_stderr, sys_displayhook>>' =
                        <<sys_stdout, sys_stderr, sys_displayhook>>
                 /\ outcome' # "raised"
         ]_vars

\* A call that returned, in which an Invalid turn came after a turn that
\* bound x and before a turn that shows the binding.
C7_Witness ==
    /\ Returned
    /\ Len(turns) = 3
    /\ turns[1].lines = <<L(TxtAssign)>>
    /\ turns[2].status = "Invalid"
    /\ Channels(PartsOf(output_parts, 2)) = <<"primary", "diag">>
    /\ Channels(PartsOf(output_parts, 3)) = <<"primary", "repr">>
    /\ locals[self] = "1"

\* Whether a turn ended in an error: an Invalid turn, or a run that raised
Failed(t) == t.status = "Invalid" \/ t.stop \in {"error", "exit"}

\* C8: no error in a turn aborts the rest: a call in which a turn was Invalid
\* or raised while it ran still returns, with every line of the block in a
\* turn, the buffer having been reset after the failed turn.
C8_ErrorDoesNotAbort ==
    (pc = "done" /\ \E k \in 1..Len(turns) : Failed(turns[k]))
        => /\ outcome = "returned"
           /\ TurnLines(turns) = lines
           /\ EchoTexts(result) = lines

\* C9: a turn that parses but raises while it runs is Complete, the text of
\* the error is in the transcript as body text of that turn, and the error
\* does not leave execute.
C9_RuntimeErrorCaptured ==
    /\ outcome # "raised"
    /\ \A tn \in 1..Len(turns) :
          turns[tn].stop \in {"error", "exit"}
              => /\ turns[tn].status = "Complete"
                 /\ \E k \in 1..Len(output_parts) :
                       output_parts[k].turn = tn /\ output_parts[k].ch = "err"

\* C10: between turns, and whenever execute has returned or raised, the
\* standard output channel, the standard error channel and the display hook
\* of the process are the original ones.
C10_ChannelsRestored ==
    /\ sys_stdout = "orig"
    /\ sys_stderr = "orig"
    /\ sys_displayhook = "orig"


\* The values that have a representation: the ones that are not None
NonNull(vals) == SelectSeq(vals, LAMBDA v : v # NoneValue)

\* The result lines of a turn: its parts that come from representations
ResultParts(tn) == SelectSeq(PartsOf(output_parts, tn), LAMBDA p : p.ch = "repr")

\* C11: the result lines of a turn are, in evaluation order, the
\* representations of the values of the expression statements the turn
\* evaluated that were not None, one for every evaluation (one per iteration
\* of a loop); a turn that is one assignment yields its echo and nothing else.
C11_OneReprPerExpression ==
    \A tn \in 1..Len(turns) :
        LET t == turns[tn]
            shown == NonNull(t.evals)
        IN
        /\ [k \in 1..Len(ResultParts(tn)) |-> ResultParts(tn)[k].s]
               = [k \in 1..Len(shown) |-> Tagged(Repr(shown[k]))]
        /\ t.lines = <<L(TxtAssign)>>
               => Channels(PartsOf(output_parts, tn)) = <<"primary">>

\* A loop whose body evaluates x and then prints it, run twice round: four
\* expression statements evaluated, two of them None, two result lines.
C11_Witness ==
    \E tn \in 1..Len(turns) :
        /\ turns[tn].lines = <<L(TxtLoop), I(TxtExpr), I(TxtPrint)>>
        /\ turns[tn].evals = <<"1", NoneValue, "1", NoneValue>>
        /\ Channels(PartsOf(output_parts, tn)) =
               <<"primary", "cont", "cont", "out", "repr", "repr">>


\* C12: sessions never share state: whatever turns other sessions have run,
\* in whatever interleaving, the transcript of a call is the one the same
\* calls on its session give when no other session runs a turn.
C12_SessionsIndependent ==
    /\ output_parts = solo_parts
    /\ Returned => result = Join(solo_parts)


\* An element that is not a cell Div with the attribute repl-mode="true"
NotSessionMode(el) == el.kind # "Div" \/ "cell" \notin el.classes \/ el.repl_mode # "true"

\* An element in which there is no source text to find: no child is a
\* cell-code Div that holds a CodeBlock, nor a cell-code CodeBlock
HoldsNoSource(el) ==
    \A k \in 1..Len(el.content) :
        LET child == el.content[k] IN
        /\ ~(/\ child.kind = "Div"
             /\ "cell-code" \in child.classes
             /\ \E j \in 1..Len(child.content) : child.content[j].kind = "CodeBlock")
        /\ ~(child.kind = "CodeBlock" /\ "cell-code" \in child.classes)

\* C13: a call of handle_cell with an element that is not flagged for session
\* mode, or is flagged and holds no source text, returns None at once and
\* runs nothing: namespace, last-result binding, channels and transcript
\* state are as before the call.
C13_PassThroughUnmodified ==
    [][ (pc = "idle" /\ elem' # NoElem /\ (NotSessionMode(elem') \/ HoldsNoSource(elem')))
            => /\ replacement' = ReturnedNone
               /\ pc' = "done"
               /\ <<locals, builtins_last, sys_stdout, sys_stderr, sys_displayhook>>'
                      = <<locals, builtins_last, sys_stdout, sys_stderr, sys_displayhook>>
               /\ <<output_parts, turns, result, buffer>>' = <<output_parts, turns, result, buffer>>
      ]_vars

\* handle_cell has returned None for an element that holds a source block but
\* is not flagged, in a session that holds a binding.
C13_Witness ==
    /\ pc = "done"
    /\ replacement = ReturnedNone
    /\ elem.kind = "Div"
    /\ elem.classes = {"cell"}
    /\ elem.repl_mode = "false"
    /\ elem.content = <<CodeBlock({"cell-code"}, SrcA)>>
    /\ locals[session] = "1"
    /\ turns = <<>>


\* C14: the derived theme differs from the base theme in the output-text
\* token only: every other token has the color, the weight and the rest of
\* its style as in the base theme.
C14_OnlyOutputTokenChanges ==
    repl_style # NoStyle =>
        \A t \in Tokens \ {GenericOutput} :
            style_for_token(repl_style, t) = style_for_token(pygments_style, t)

\* A derived theme whose output-text token has changed, next to tokens that
\* have colors and weights of their own or inherit them from Generic.
C14_Witness ==
    /\ repl_style # NoStyle
    /\ style_for_token(repl_style, GenericOutput) # style_for_token(pygments_style, GenericOutput)
    /\ style_for_token(pygments_style, Generic).bold
    /\ style_for_token(pygments_style, GenericPrompt).bold
    /\ style_for_token(pygments_style, Keyword).color = "aaaaaa"


\* The turns a step flushed at a site of execute: "pre" (line 153), "post"
\* (lines 166, 178), "tail" (line 183)
FlushedAt(site) == {k \in 1..Len(NewTurns) : NewTurns[k].site = site}

\* An odd count of a triple-quote delimiter in the buffer
OddDelimiters(buf) ==
    \/ Count(buf, TripleDoubleTexts) % 2 = 1
    \/ Count(buf, TripleSingleTexts) % 2 = 1

\* C15: before a new line is appended, the pending buffer is flushed if and
\* only if the buffer is non-empty, the new line is non-blank, does not start
\* with a space or tab, its first token is no continuation keyword, the probe
\* of the buffer reports Incomplete, and the buffer holds no odd count of a
\* triple-quote delimiter; and what is flushed then is the buffer as it was.
\* A blank line never triggers this flush.
C15_PreCheck ==
    [][ (pc = "loop" /\ i <= Len(lines)) =>
          LET line == lines[i] IN
          /\ FlushedAt("pre") # {} <=>
                /\ buffer # <<>>
                /\ StripLine(line) # <<>>
                /\ ~StartsWithSpace(line)
                /\ FirstToken(StripLine(line)) \notin CONTINUATION_KEYWORDS
                /\ compile_command(buffer) = "Incomplete"
                /\ ~OddDelimiters(buffer)
          /\ FlushedAt("pre") \subseteq {1}
          /\ FlushedAt("pre") # {} => NewTurns[1].lines = buffer
          /\ StripLine(line) = <<>> => FlushedAt("pre") = {}
      ]_vars

\* A call in which the pre-check flushed a header to which a blank line had
\* been appended without a flush.
C15_Witness ==
    /\ pc = "done"
    /\ \E tn \in 1..Len(turns) :
           /\ turns[tn].site = "pre"
           /\ turns[tn].lines = <<L(TxtHeader), BLANK>>


\* Whether SystemExit left the pre-check's flush in this step, so that the
\* line was not appended
PreFlushExited == FlushedAt("pre") # {} /\ NewTurns[1].stop = "exit"

\* The buffer of this step once the line is appended (line 156)
Appended == IF FlushedAt("pre") # {} THEN <<lines[i]>> ELSE Append(buffer, lines[i])

\* Whether the line after lines[k] exists and has a continuation keyword as
\* its first token
NextIsClause(k) ==
    /\ k + 1 <= Len(lines)
    /\ StripLine(lines[k + 1]) # <<>>
    /\ FirstToken(StripLine(lines[k + 1])) \in CONTINUATION_KEYWORDS

\* C16: after a line is appended and the probe reports Complete, the buffer
\* is flushed as a completed turn and reset before the next line is read,
\* unless the next line exists and its first token is a continuation keyword:
\* then the buffer is not flushed, and the next line is accumulated into the
\* same turn.
C16_CompleteCase ==
    /\ [][ (pc = "loop" /\ i <= Len(lines) /\ ~PreFlushExited
               /\ compile_command(Appended) = "Complete") =>
            IF NextIsClause(i)
            THEN /\ FlushedAt("post") = {}
                 /\ buffer' = Appended
                 /\ pc' = "loop" /\ i' = i + 1
            ELSE /\ FlushedAt("post") = {Len(NewTurns)}
                 /\ NewTurns[Len(NewTurns)].lines = Appended
                 /\ NewTurns[Len(NewTurns)].status = "Complete"
                 /\ NewTurns[Len(NewTurns)].runs = 1
                 /\ outcome' # "raised" => buffer' = <<>> /\ i' = i + 1
         ]_vars
    \* a Complete buffer that was kept: the line read next joins it
    /\ [][ (pc = "loop" /\ i <= Len(lines) /\ buffer # <<>>
               /\ compile_command(buffer) = "Complete") =>
            /\ FlushedAt("pre") = {}
            /\ \/ buffer' = Append(buffer, lines[i])
               \/ /\ Len(NewTurns) = 1
                  /\ NewTurns[1].lines = Append(buffer, lines[i])
         ]_vars

\* A call that flushed a Complete statement at once, and kept the next
\* Complete statement because an else: line followed, which joined its turn.
C16_Witness ==
    /\ Returned
    /\ Len(turns) = 2
    /\ turns[1].site = "post" /\ turns[1].status = "Complete"
    /\ turns[1].lines = <<L(TxtAssign)>>
    /\ turns[2].lines = <<L(TxtAssign), L(TxtElse)>>


\* C17: after a line is appended, if the probe reports Invalid and the buffer
\* holds no odd count of a triple-quote delimiter, the buffer is flushed at
\* once as an error turn with its diagnostic and reset: the turn ends at the
\* line just appended and the next line starts a new turn.  If the probe
\* reports Invalid and the buffer holds an odd count, nothing is flushed.
C17_InvalidCase ==
    [][ (pc = "loop" /\ i <= Len(lines) /\ ~PreFlushExited
            /\ compile_command(Appended) = "Invalid") =>
         IF ~OddDelimiters(Appended)
         THEN LET t == NewTurns[Len(NewTurns)] IN
              /\ FlushedAt("post") = {Len(NewTurns)}
              /\ t.lines = Appended
              /\ t.status = "Invalid"
              /\ t.runs = 0
              /\ t.first + Len(t.lines) - 1 = i
              /\ output_parts'[Len(output_parts')].ch = "diag"
              /\ output_parts'[Len(output_parts')].turn = Len(turns')
              /\ output_parts'[Len(output_parts')].s = TextLines(SyntaxErrorText)
              /\ buffer' = <<>>
              /\ pc' = "loop" /\ i' = i + 1
         ELSE /\ FlushedAt("post") = {}
              /\ buffer' = Appended
              /\ pc' = "loop" /\ i' = i + 1
      ]_vars

\* A call in which a line with one delimiter made the buffer Invalid and
\* nothing was flushed, the next line made the count even and the two lines
\* were flushed as an error turn, and the line after them started a new turn.
C17_Witness ==
    /\ Returned
    /\ Len(turns) = 2
    /\ turns[1].lines = <<L(TxtTQEsc), L(TxtTQEsc)>>
    /\ turns[1].status = "Invalid" /\ turns[1].site = "post"
    /\ Channels(PartsOf(output_parts, 1)) = <<"primary", "cont", "diag">>
    /\ turns[2].lines = <<L(TxtExpr)>> /\ turns[2].first = 3


\* C18: when all lines are consumed and the pending buffer is non-empty, it
\* is flushed as a turn, never discarded, even though the probe still reports
\* it Incomplete: its lines are echoed, and it is run if it is Complete once
\* a line break ends it (a trailing block), shown with its diagnostic if it is
\* Invalid, and only echoed otherwise.  An empty buffer flushes nothing.
C18_TailFlush ==
    [][ (pc = "loop" /\ i > Len(lines)) =>
          IF buffer = <<>> THEN NewTurns = <<>> /\ NewParts = <<>>
          ELSE LET t == NewTurns[1]
                   n == Len(buffer)
                   ended == compile_command(Append(buffer, BLANK))
               IN
               /\ Len(NewTurns) = 1
               /\ t.site = "tail"
               /\ t.lines = buffer
               /\ t.first + n - 1 = Len(lines)
               /\ Len(NewParts) >= n
               /\ NewParts[1] = Part("primary", << <<PS1>> \o buffer[1] >>, Len(turns'))
               /\ \A k \in 2..n :
                     NewParts[k] = Part("cont", << <<PS2>> \o buffer[k] >>, Len(turns'))
               /\ \A k \in (n + 1)..Len(NewParts) :
                     NewParts[k].ch \notin {"primary", "cont"}
               /\ t.status = ended
               /\ t.runs = (IF ended = "Complete" THEN 1 ELSE 0)
               /\ ended = "Invalid" => NewParts[Len(NewParts)].ch = "diag"
               /\ ended = "Incomplete" => Len(NewParts) = n
               /\ outcome' = "returned" => result' = Join(output_parts')
      ]_vars

\* A call that returned after its trailing flush ran a block the probe had
\* reported Incomplete at every line, and the block printed.
C18_Witness ==
    /\ Returned
    /\ Len(turns) = 1
    /\ turns[1].site = "tail"
    /\ turns[1].lines = <<L(TxtLoop), I(TxtPrint)>>
    /\ compile_command(turns[1].lines) = "Incomplete"
    /\ turns[1].runs = 1
    /\ Channels(output_parts) = <<"primary", "cont", "out">>


\* C19: every transcript line that comes from a result representation
\* carries the result tag, and no echoed line and no line of printed text,
\* error text or diagnostic carries it, for representations and texts of
\* several lines too.
C19_TagExactlyResultLines ==
    \A k \in 1..Len(output_parts) :
        \A n \in 1..Len(output_parts[k].s) :
            StartsWithSentinel(output_parts[k].s[n]) <=> output_parts[k].ch = "repr"


\* The transcript lines a fragment was made of
FragmentLines(f) ==
    IF f.kind = "result" THEN << <<REPR_SENTINEL>> \o f.src[1] >> ELSE f.src

RECURSIVE AllFragmentLines(_)
AllFragmentLines(fs) ==
    IF fs = <<>> THEN <<>> ELSE FragmentLines(Head(fs)) \o AllFragmentLines(Tail(fs))

\* C20: the renderer partitions the tagged transcript into fragments in line
\* order: the lines of the fragments, one fragment after the other, are the
\* lines of the transcript, so every line is in exactly one fragment; every
\* tagged line is a fragment of its own, highlighted without its tag; every
\* console block is a non-empty run of untagged lines highlighted as a unit;
\* and no two console blocks are adjacent, so the runs are maximal.
C20_RendererPartition ==
    replacement.format = "html" =>
        LET fs == replacement.highlighted_parts IN
        /\ AllFragmentLines(fs) = result
        /\ \A k \in 1..Len(fs) :
              /\ fs[k].kind \in {"console", "result"}
              /\ fs[k].src # <<>>
              /\ fs[k].markup = highlight(fs[k].src)
              /\ fs[k].kind = "result" =>
                    Len(fs[k].src) = 1 /\ ~StartsWithSentinel(fs[k].src[1])
              /\ fs[k].kind = "console" =>
                    \A n \in 1..Len(fs[k].src) : ~StartsWithSentinel(fs[k].src[n])
        /\ \A k \in 1..(Len(fs) - 1) :
              ~(fs[k].kind = "console" /\ fs[k + 1].kind = "console")

\* A rendered transcript of two console blocks, the first of two lines, each
\* followed by a result line.
C20_Witness ==
    /\ replacement.format = "html"
    /\ LET fs == replacement.highlighted_parts IN
       /\ Len(fs) = 4
       /\ [k \in 1..4 |-> fs[k].kind] = <<"console", "result", "console", "result">>
       /\ Len(fs[1].src) = 2


\* What the name _ is bound to for a session: console.locals["__builtins__"]
\* is the dictionary of the builtins module in every console
LastResultSeenBy(s) == builtins_last

\* C21: after any sequence of turns, the last-result binding a session sees
\* holds the value of the most recent bare expression that produced a
\* non-null value in that session, and is unbound when the session has
\* evaluated none; null values, statements and Invalid turns leave it as it
\* was.
C21_LastResultOfSession ==
    \A s \in Sessions : LastResultSeenBy(s) = own_last[s]


\* The default foreground color the derivation reads from the base theme:
\* base.style_for_token(Generic)["color"]; "" when the theme defines none
DefaultForeground(base) == style_for_token(base, Generic).color

\* C22: the output-text color of the derived theme is the default foreground
\* color of the base theme when the base theme defines one, and f8f8f2 when
\* it defines none, whatever color the base theme gives its output-text token.
C22_OutputColorIsDefaultForeground ==
    repl_style # NoStyle =>
        style_for_token(repl_style, GenericOutput).color =
            (IF DefaultForeground(pygments_style) # ""
             THEN DefaultForeground(pygments_style)
             ELSE "f8f8f2")


\* C23: every turn handed to _flush_buffer, at any of its three call sites,
\* is a non-empty run of consecutive lines of the block of the current call;
\* when execute returns no line is pending, every line of the block having
\* been flushed; and a call starts with an empty buffer, so no line of an
\* earlier call on the session is merged with the lines of the next.
C23_TurnsNonEmptyNothingPending ==
    /\ [](\A tn \in 1..Len(turns) :
             LET t == turns[tn] IN
             /\ t.lines # <<>>
             /\ t.site \in {"pre", "post", "tail"}
             /\ t.first >= 1 /\ t.first + Len(t.lines) - 1 <= Len(lines)
             /\ t.lines = SubSeq(lines, t.first, t.first + Len(t.lines) - 1))
    /\ [](pc = "loop" =>
             /\ Len(buffer) < i
             /\ buffer = SubSeq(lines, i - Len(buffer), i - 1))
    /\ [](Returned =>
             /\ TurnLines(turns) = lines
             /\ buffer # <<>> => turns[Len(turns)].site = "tail"
                                 /\ turns[Len(turns)].lines = buffer)
    /\ [][ (pc = "idle" /\ pc' = "loop") =>
              buffer' = <<>> /\ turns' = <<>> /\ i' = 1 ]_vars

\* A call that returned, on a session an earlier call had bound x in, with a
\* block flushed by the pre-check and a trailing block flushed at the end.
C23_Witness ==
    /\ Returned
    /\ lines = <<L(TxtHeader), I(TxtExpr), L(TxtHeader), I(TxtPrint)>>
    /\ locals[self] = "1"
    /\ Len(turns) = 2
    /\ turns[1].site = "pre" /\ turns[2].site = "tail"
    /\ turns[2].lines = buffer

=============================================================================
